---------------------------- MODULE Spec2Model ----------------------------
(***************************************************************************)
(* State machine of the App component of web/src/App.tsx: the React state  *)
(* hooks are the variables, every event handler is one action, and the     *)
(* useEffect that opens the length dialog is run at the end of every       *)
(* action that changes one of its dependencies.                            *)
(*                                                                         *)
(* Numbers are exact rationals <<n, d>> (d > 0, lowest terms); the         *)
(* rounding of IEEE doubles is not modelled.  null is <<0, 0>>.            *)
(***************************************************************************)
EXTENDS Integers, Sequences, FiniteSets, TLC

VARIABLES
    numPages,               \* useState<number | null>(null); 0 stands for null
    pageNumber,             \* useState(1)
    calibrationMode,        \* useState(false)
    calibrationPoints,      \* useState([]), document-space points
    calibrationDialogOpen,  \* useState(false)
    realLength,             \* useState(''), the text of the length field
    scale,                  \* useState<number | null>(null)
    calibrationError,       \* useState('')
    open,                   \* useState(false), the upload dialog
    pdfUrl,                 \* useState(samplePDF); 0 is samplePDF, f > 0 an object URL
    loadPending,            \* <Document file={pdfUrl}> is still loading pdfUrl
    measuring,              \* useState(false)
    measurementPoints,      \* useState([])
    measurements,           \* useState([]), records [points, length]
    lastEvent,              \* history: the handler that ran last
    committed,              \* history: handleCalibrationSubmit stored a scale
                            \* since the current document was chosen
    events                  \* history: the number of events handled so far

vars == <<numPages, pageNumber, calibrationMode, calibrationPoints,
          calibrationDialogOpen, realLength, scale, calibrationError, open,
          pdfUrl, loadPending, measuring, measurementPoints, measurements,
          lastEvent, committed, events>>

---------------------------------------------------------------------------
(* Bounds of the model *)

MaxCalPoints == 3       \* clicks kept in calibrationPoints (the code has no cap)
MaxPathPoints == 3      \* clicks kept in measurementPoints (the code has no cap)
MaxMeasurements == 1    \* finished measurements kept (the code has no cap)
MaxPages == 2           \* pages of a loaded document
NumFiles == 1           \* distinct files the user can drop or pick
MaxEvents == 10         \* events handled in one session

---------------------------------------------------------------------------
(* Exact rational arithmetic standing for JavaScript numbers *)

Abs(i) == IF i < 0 THEN -i ELSE i

RECURSIVE GCD(_, _)
GCD(a, b) == IF b = 0 THEN a ELSE GCD(b, a % b)

Rat(n, d) ==
    LET s == IF d < 0 THEN -1 ELSE 1
        g == GCD(Abs(n), Abs(d))
    IN  <<(s * n) \div g, (s * d) \div g>>

Null == <<0, 0>>
Zero == <<0, 1>>
One == <<1, 1>>

RAdd(a, b) == Rat(a[1] * b[2] + b[1] * a[2], a[2] * b[2])
RSub(a, b) == Rat(a[1] * b[2] - b[1] * a[2], a[2] * b[2])
RMul(a, b) == Rat(a[1] * b[1], a[2] * b[2])
RDiv(a, b) == Rat(a[1] * b[2], a[2] * b[1])
RLess(a, b) == a[1] * b[2] < b[1] * a[2]
RMin(a, b) == IF RLess(b, a) THEN b ELSE a
RMax(a, b) == IF RLess(a, b) THEN b ELSE a

ISqrt(n) == CHOOSE r \in 0..n : r * r <= n /\ (r + 1) * (r + 1) > n

\* Math.sqrt on a rational: sqrt(n/d) = sqrt(n*d)/d, exact on perfect squares
Sqrt(a) == Rat(ISqrt(a[1] * a[2]), a[2])

\* JavaScript truthiness of a number | null: neither null nor 0
Truthy(s) == s # Null /\ s[1] # 0

\* prev ?? 1.0
OrOne(s) == IF s = Null THEN One ELSE s

---------------------------------------------------------------------------
(* parseFloat on the text of the length field.  A text is a sequence of   *)
(* one-character strings; the result is [kind, val] with kind "NaN",       *)
(* "Infinity" or "num".                                                    *)

Digits == {"0", "1", "2", "3", "4", "5", "6", "7", "8", "9"}

DigitVal(c) ==
    CASE c = "0" -> 0 [] c = "1" -> 1 [] c = "2" -> 2 [] c = "3" -> 3
      [] c = "4" -> 4 [] c = "5" -> 5 [] c = "6" -> 6 [] c = "7" -> 7
      [] c = "8" -> 8 [] c = "9" -> 9

RECURSIVE DigitRun(_, _)
DigitRun(s, i) ==
    IF i <= Len(s) /\ s[i] \in Digits THEN 1 + DigitRun(s, i + 1) ELSE 0

RECURSIVE DigitsValue(_, _, _)
DigitsValue(s, i, k) ==
    IF k = 0 THEN 0 ELSE DigitsValue(s, i, k - 1) * 10 + DigitVal(s[i + k - 1])

RECURSIVE Pow10(_)
Pow10(k) == IF k = 0 THEN 1 ELSE 10 * Pow10(k - 1)

NaN == [kind |-> "NaN", val |-> Zero]
Infinity == [kind |-> "Infinity", val |-> Zero]
Num(r) == [kind |-> "num", val |-> r]

ParseFloat(s) ==
    LET sg     == IF Len(s) >= 1 /\ s[1] \in {"+", "-"} THEN 1 ELSE 0
        neg    == sg = 1 /\ s[1] = "-"
        i0     == sg + 1
        ni     == DigitRun(s, i0)
        hasDot == i0 + ni <= Len(s) /\ s[i0 + ni] = "."
        nf     == IF hasDot THEN DigitRun(s, i0 + ni + 1) ELSE 0
        iE     == i0 + ni + (IF hasDot THEN 1 + nf ELSE 0)
        hasE   == iE <= Len(s) /\ s[iE] \in {"e", "E"}
        esg    == IF hasE /\ iE + 1 <= Len(s) /\ s[iE + 1] \in {"+", "-"}
                  THEN 1 ELSE 0
        ne     == IF hasE THEN DigitRun(s, iE + 1 + esg) ELSE 0
        eneg   == esg = 1 /\ s[iE + 1] = "-"
        e      == DigitsValue(s, iE + 1 + esg, ne)
        mant   == Rat(DigitsValue(s, i0, ni) * Pow10(nf)
                        + DigitsValue(s, i0 + ni + 1, nf), Pow10(nf))
        signed == IF neg THEN RSub(Zero, mant) ELSE mant
    IN  IF ni = 0 /\ nf = 0 THEN NaN
        ELSE IF ne = 0 \/ mant = Zero THEN Num(signed)
        ELSE IF eneg THEN (IF e > 323 THEN Num(Zero)
                           ELSE Num(RDiv(signed, Rat(Pow10(e), 1))))
        ELSE IF e > 308 THEN Infinity   \* beyond the largest finite double
        ELSE Num(RMul(signed, Rat(Pow10(e), 1)))

\* isNaN(len) || len <= 0
IsRejected(len) ==
    \/ len.kind = "NaN"
    \/ len.kind = "num" /\ ~RLess(Zero, len.val)

\* pixelDist / len
DivByLen(pixelDist, len) ==
    IF len.kind = "Infinity" THEN Zero ELSE RDiv(pixelDist, len.val)

---------------------------------------------------------------------------
(* Inputs *)

\* document-space positions the user aims at
DocPoints == {<<Zero, Zero>>, <<Rat(3, 1), Rat(4, 1)>>}

\* texts the user leaves in the length field
LengthTexts ==
    {<<>>, <<"0">>, <<"-", "2">>, <<"1">>, <<"2">>, <<"1", "e", "9", "9", "9">>}

samplePDF == 0
Files == 1..NumFiles

ErrorText == "Please enter a valid positive number."

---------------------------------------------------------------------------
(* Geometry *)

\* const scaleFactor = scale || 1.0
ScaleFactorOf(s) == IF Truthy(s) THEN s ELSE One
scaleFactor == ScaleFactorOf(scale)

\* where the page rendered at zoom sf shows document point p,
\* relative to the page's bounding rectangle
DocumentToScreen(p, sf) == <<RMul(p[1], sf), RMul(p[2], sf)>>

\* (e.clientX - rect.left) / scaleFactor, (e.clientY - rect.top) / scaleFactor
ToDocumentSpace(off, sf) == <<RDiv(off[1], sf), RDiv(off[2], sf)>>

\* Math.sqrt((p2.x - p1.x) ** 2 + (p2.y - p1.y) ** 2)
PixelDist(p1, p2) ==
    LET dx == RSub(p2[1], p1[1])
        dy == RSub(p2[2], p1[2])
    IN  Sqrt(RAdd(RMul(dx, dx), RMul(dy, dy)))

\* the loop of handleMeasurementDoubleClick and of the running-length label:
\* total += pixelDist / scale for i = 1 .. length - 1
RECURSIVE TotalUpTo(_, _, _)
TotalUpTo(pts, s, k) ==
    IF k <= 1 THEN Zero
    ELSE RAdd(TotalUpTo(pts, s, k - 1),
              RDiv(PixelDist(pts[k - 1], pts[k]), s))

PathTotal(pts, s) == TotalUpTo(pts, s, Len(pts))

---------------------------------------------------------------------------
(* The component *)

Init ==
    /\ numPages = 0
    /\ pageNumber = 1
    /\ calibrationMode = FALSE
    /\ calibrationPoints = <<>>
    /\ calibrationDialogOpen = FALSE
    /\ realLength = <<>>
    /\ scale = Null
    /\ calibrationError = ""
    /\ open = FALSE
    /\ pdfUrl = samplePDF
    /\ loadPending = TRUE
    /\ measuring = FALSE
    /\ measurementPoints = <<>>
    /\ measurements = <<>>
    /\ lastEvent = "mount"
    /\ committed = FALSE
    /\ events = 0

\* one more event is handled
Tick == events < MaxEvents /\ events' = events + 1

\* mutant of NoDialog: the dialogs do not block the page behind them
NoDialogNonModal == TRUE

\* Both dialogs are modal: while one is shown the page and the toolbar
\* behind it receive no pointer events.
NoDialog == ~calibrationDialogOpen /\ ~open

\* mutant of DialogEffect: the effect fires from the first point on
DialogEffectFromFirst(mode, pts, dlg) ==
    IF mode /\ Len(pts) >= 1 THEN TRUE ELSE dlg

\* useEffect(..., [calibrationPoints, calibrationMode]): the value of
\* calibrationDialogOpen after the effect has run on the new state
DialogEffect(mode, pts, dlg) == IF mode /\ Len(pts) = 2 THEN TRUE ELSE dlg

\* <Document onLoadSuccess>: the document at pdfUrl finished loading
OnDocumentLoadSuccess(n) ==
    /\ loadPending
    /\ numPages' = n
    /\ pageNumber' = 1
    /\ loadPending' = FALSE
    /\ lastEvent' = "onDocumentLoadSuccess"
    /\ Tick
    /\ UNCHANGED <<calibrationMode, calibrationPoints, calibrationDialogOpen,
                   realLength, scale, calibrationError, open, pdfUrl,
                   measuring, measurementPoints, measurements, committed>>

HandlePrevPage ==
    /\ NoDialog
    /\ ~(pageNumber <= 1)                      \* disabled={pageNumber <= 1}
    /\ pageNumber' = (IF pageNumber - 1 > 1 THEN pageNumber - 1 ELSE 1)
    /\ lastEvent' = "handlePrevPage"
    /\ Tick
    /\ UNCHANGED <<numPages, calibrationMode, calibrationPoints,
                   calibrationDialogOpen, realLength, scale, calibrationError,
                   open, pdfUrl, loadPending, measuring, measurementPoints,
                   measurements, committed>>

HandleNextPage ==
    /\ NoDialog
    /\ ~(IF numPages # 0 THEN pageNumber >= numPages ELSE TRUE)
    /\ pageNumber' = (IF numPages # 0
                      THEN (IF pageNumber + 1 < numPages THEN pageNumber + 1
                            ELSE numPages)
                      ELSE pageNumber)
    /\ lastEvent' = "handleNextPage"
    /\ Tick
    /\ UNCHANGED <<numPages, calibrationMode, calibrationPoints,
                   calibrationDialogOpen, realLength, scale, calibrationError,
                   open, pdfUrl, loadPending, measuring, measurementPoints,
                   measurements, committed>>

\* Math.min((prev ?? 1.0) + 0.2, 3)
ZoomInValue(prev) == RMin(RAdd(OrOne(prev), Rat(1, 5)), Rat(3, 1))

\* Math.max((prev ?? 1.0) - 0.2, 0.5)
ZoomOutValue(prev) == RMax(RSub(OrOne(prev), Rat(1, 5)), Rat(1, 2))

HandleZoomIn ==
    /\ NoDialog
    /\ scale' = ZoomInValue(scale)
    /\ lastEvent' = "handleZoomIn"
    /\ Tick
    /\ UNCHANGED <<numPages, pageNumber, calibrationMode, calibrationPoints,
                   calibrationDialogOpen, realLength, calibrationError, open,
                   pdfUrl, loadPending, measuring, measurementPoints,
                   measurements, committed>>

HandleZoomOut ==
    /\ NoDialog
    /\ scale' = ZoomOutValue(scale)
    /\ lastEvent' = "handleZoomOut"
    /\ Tick
    /\ UNCHANGED <<numPages, pageNumber, calibrationMode, calibrationPoints,
                   calibrationDialogOpen, realLength, calibrationError, open,
                   pdfUrl, loadPending, measuring, measurementPoints,
                   measurements, committed>>

\* the "Open PDF" button
OpenUploadDialog ==
    /\ NoDialog
    /\ open' = TRUE
    /\ lastEvent' = "openUploadDialog"
    /\ Tick
    /\ UNCHANGED <<numPages, pageNumber, calibrationMode, calibrationPoints,
                   calibrationDialogOpen, realLength, scale, calibrationError,
                   pdfUrl, loadPending, measuring, measurementPoints,
                   measurements, committed>>

\* onClose and the Cancel button of the upload dialog
CloseUploadDialog ==
    /\ open
    /\ open' = FALSE
    /\ lastEvent' = "closeUploadDialog"
    /\ Tick
    /\ UNCHANGED <<numPages, pageNumber, calibrationMode, calibrationPoints,
                   calibrationDialogOpen, realLength, scale, calibrationError,
                   pdfUrl, loadPending, measuring, measurementPoints,
                   measurements, committed>>

\* what onDrop and handleFileChange do with an accepted file f
ChooseFile(f) ==
    /\ pdfUrl' = f
    /\ open' = FALSE
    /\ loadPending' = TRUE
    /\ committed' = FALSE
    /\ UNCHANGED <<numPages, pageNumber, calibrationMode, calibrationPoints,
                   calibrationDialogOpen, realLength, scale, calibrationError,
                   measuring, measurementPoints, measurements>>

OnDrop(f) ==
    /\ open
    /\ ChooseFile(f)
    /\ lastEvent' = "onDrop"
    /\ Tick

HandleFileChange(f) ==
    /\ open
    /\ ChooseFile(f)
    /\ lastEvent' = "handleFileChange"
    /\ Tick

\* the document-space point recorded for a click on the place where the
\* page shows document point p
ClickPoint(p) == ToDocumentSpace(DocumentToScreen(p, scaleFactor), scaleFactor)

\* onClick={calibrationMode ? handlePdfClick : ...}
HandlePdfClick(p) ==
    /\ NoDialog
    /\ calibrationMode
    /\ Len(calibrationPoints) < MaxCalPoints
    /\ calibrationPoints' = Append(calibrationPoints, ClickPoint(p))
    /\ calibrationDialogOpen' =
           DialogEffect(calibrationMode, calibrationPoints', calibrationDialogOpen)
    /\ lastEvent' = "handlePdfClick"
    /\ Tick
    /\ UNCHANGED <<numPages, pageNumber, calibrationMode, realLength, scale,
                   calibrationError, open, pdfUrl, loadPending, measuring,
                   measurementPoints, measurements, committed>>

\* onClick={calibrationMode ? ... : measuring ? handleMeasurementClick : undefined}
HandleMeasurementClick(p) ==
    /\ NoDialog
    /\ ~calibrationMode
    /\ measuring
    /\ Len(measurementPoints) < MaxPathPoints
    /\ measurementPoints' =
           (IF ~measuring \/ ~Truthy(scale) THEN measurementPoints
            ELSE Append(measurementPoints, ClickPoint(p)))
    /\ lastEvent' = "handleMeasurementClick"
    /\ Tick
    /\ UNCHANGED <<numPages, pageNumber, calibrationMode, calibrationPoints,
                   calibrationDialogOpen, realLength, scale, calibrationError,
                   open, pdfUrl, loadPending, measuring, measurements,
                   committed>>

\* mutant of FinishRejected: a single point is enough to finish
FinishRejectedBelowOne ==
    ~measuring \/ ~Truthy(scale) \/ Len(measurementPoints) < 1

\* if (!measuring || !scale || measurementPoints.length < 2) return;
FinishRejected == ~measuring \/ ~Truthy(scale) \/ Len(measurementPoints) < 2

\* { points: [...measurementPoints], length: total }
NewMeasurement(pts, s) == [points |-> pts, length |-> PathTotal(pts, s)]

\* onDoubleClick={measuring ? handleMeasurementDoubleClick : undefined}
HandleMeasurementDoubleClick ==
    /\ NoDialog
    /\ measuring
    /\ FinishRejected \/ Len(measurements) < MaxMeasurements
    /\ IF FinishRejected
       THEN UNCHANGED <<measurements, measurementPoints, measuring>>
       ELSE /\ measurements' =
                   Append(measurements, NewMeasurement(measurementPoints, scale))
            /\ measurementPoints' = <<>>
            /\ measuring' = FALSE
    /\ lastEvent' = "handleMeasurementDoubleClick"
    /\ Tick
    /\ UNCHANGED <<numPages, pageNumber, calibrationMode, calibrationPoints,
                   calibrationDialogOpen, realLength, scale, calibrationError,
                   open, pdfUrl, loadPending, committed>>

\* the "Calibrate Scale" / "Cancel Calibration" button
ToggleCalibration ==
    /\ NoDialog
    /\ calibrationMode' = ~calibrationMode
    /\ calibrationPoints' = <<>>
    /\ calibrationError' = ""
    /\ calibrationDialogOpen' =
           DialogEffect(calibrationMode', calibrationPoints', calibrationDialogOpen)
    /\ lastEvent' = "toggleCalibration"
    /\ Tick
    /\ UNCHANGED <<numPages, pageNumber, realLength, scale, open, pdfUrl,
                   loadPending, measuring, measurementPoints, measurements,
                   committed>>

\* disabled={!scale}
MeasureButtonEnabled == Truthy(scale)

\* mutant of ToggleMeasure: the button leaves the in-progress path in place
ToggleMeasureKeepsPath ==
    /\ NoDialog
    /\ MeasureButtonEnabled
    /\ measuring' = ~measuring
    /\ lastEvent' = "toggleMeasure"
    /\ Tick
    /\ UNCHANGED <<numPages, pageNumber, calibrationMode, calibrationPoints,
                   calibrationDialogOpen, realLength, scale, calibrationError,
                   open, pdfUrl, loadPending, measurementPoints, measurements,
                   committed>>

\* the "Measure" / "Cancel Measurement" button
ToggleMeasure ==
    /\ NoDialog
    /\ MeasureButtonEnabled
    /\ measuring' = ~measuring
    /\ measurementPoints' = <<>>
    /\ lastEvent' = "toggleMeasure"
    /\ Tick
    /\ UNCHANGED <<numPages, pageNumber, calibrationMode, calibrationPoints,
                   calibrationDialogOpen, realLength, scale, calibrationError,
                   open, pdfUrl, loadPending, measurements, committed>>

\* onChange={e => setRealLength(e.target.value)} of the length field
SetRealLength(s) ==
    /\ calibrationDialogOpen
    /\ realLength' = s
    /\ lastEvent' = "setRealLength"
    /\ Tick
    /\ UNCHANGED <<numPages, pageNumber, calibrationMode, calibrationPoints,
                   calibrationDialogOpen, scale, calibrationError, open, pdfUrl,
                   loadPending, measuring, measurementPoints, measurements,
                   committed>>

\* onClose and the Cancel button of the length dialog
CloseCalibrationDialog ==
    /\ calibrationDialogOpen
    /\ calibrationDialogOpen' = FALSE
    /\ lastEvent' = "closeCalibrationDialog"
    /\ Tick
    /\ UNCHANGED <<numPages, pageNumber, calibrationMode, calibrationPoints,
                   realLength, scale, calibrationError, open, pdfUrl,
                   loadPending, measuring, measurementPoints, measurements,
                   committed>>

\* setScale(pixelDist / len) with [p1, p2] = calibrationPoints
NewScale(pts, len) == DivByLen(PixelDist(pts[1], pts[2]), len)

\* the "Set Scale" button
HandleCalibrationSubmit ==
    /\ calibrationDialogOpen
    /\ LET len == ParseFloat(realLength)
       IN  IF IsRejected(len)
           THEN /\ calibrationError' = ErrorText
                /\ UNCHANGED <<scale, calibrationDialogOpen, calibrationMode,
                               calibrationPoints, realLength, committed>>
           ELSE IF Len(calibrationPoints) < 2
           THEN \* p2 is undefined: reading p2.x throws before any setter runs
                UNCHANGED <<scale, calibrationDialogOpen, calibrationMode,
                            calibrationPoints, realLength, calibrationError,
                            committed>>
           ELSE /\ scale' = NewScale(calibrationPoints, len)
                /\ calibrationMode' = FALSE
                /\ calibrationPoints' = <<>>
                /\ calibrationDialogOpen' =
                       DialogEffect(calibrationMode', calibrationPoints', FALSE)
                /\ realLength' = <<>>
                /\ calibrationError' = ""
                /\ committed' = TRUE
    /\ lastEvent' = "handleCalibrationSubmit"
    /\ Tick
    /\ UNCHANGED <<numPages, pageNumber, open, pdfUrl, loadPending, measuring,
                   measurementPoints, measurements>>

Next ==
    \/ \E n \in 1..MaxPages : OnDocumentLoadSuccess(n)
    \/ HandlePrevPage
    \/ HandleNextPage
    \/ HandleZoomIn
    \/ HandleZoomOut
    \/ OpenUploadDialog
    \/ CloseUploadDialog
    \/ \E f \in Files : OnDrop(f)
    \/ \E f \in Files : HandleFileChange(f)
    \/ \E p \in DocPoints : HandlePdfClick(p)
    \/ \E p \in DocPoints : HandleMeasurementClick(p)
    \/ HandleMeasurementDoubleClick
    \/ ToggleCalibration
    \/ ToggleMeasure
    \/ \E s \in LengthTexts : SetRealLength(s)
    \/ CloseCalibrationDialog
    \/ HandleCalibrationSubmit

Spec == Init /\ [][Next]_vars

---------------------------------------------------------------------------
(* What the overlay reports *)

\* toFixed(2) of a non-negative number, in hundredths (half rounds up)
ToFixed2(r) == (2 * 100 * r[1] + r[2]) \div (2 * r[2])

\* {m.length.toFixed(2)} units
ReportedLength(m) == ToFixed2(m.length)

\* the sum of the Euclidean distances between consecutive points
PixelLength(pts) == PathTotal(pts, One)

---------------------------------------------------------------------------
(* Vocabulary of the claims *)

Idle == ~calibrationMode /\ ~measuring

\* the entered text is a positive finite number
PositiveLength(text) ==
    LET len == ParseFloat(text)
    IN  len.kind = "num" /\ RLess(Zero, len.val)

SubmitStep == lastEvent' = "handleCalibrationSubmit"

---------------------------------------------------------------------------
(* C1 .. C10 *)

\* C1 (mode exclusivity): Calibrating and Measuring are never active at the
\* same time, and pending calibration points never coexist with an
\* in-progress measurement path.
C1_ModeExclusivity ==
    /\ ~(calibrationMode /\ measuring)
    /\ ~(calibrationPoints # <<>> /\ measurementPoints # <<>>)

\* C2 (calibration lifecycle): the ratio is absent until a commit succeeds,
\* and a step changes it only if it is a commit made with exactly two pending
\* points and a positive real-world length.
C2_CalibrationLifecycle ==
    [][/\ ~committed' => scale' = Null
       /\ scale' # scale =>
              /\ SubmitStep
              /\ Len(calibrationPoints) = 2
              /\ PositiveLength(realLength)]_vars

\* C3 (retroactive rescale): once a commit has stored a ratio, the length
\* reported for each completed measurement is its pixel length divided by
\* that ratio, also for the measurements completed before the commit.
C3_RetroactiveRescale ==
    (/\ lastEvent = "handleCalibrationSubmit"
     /\ ~calibrationDialogOpen          \* the commit was accepted
     /\ Truthy(scale)) =>
        \A i \in 1..Len(measurements) :
            ReportedLength(measurements[i]) =
                ToFixed2(RDiv(PixelLength(measurements[i].points), scale))

\* C4 (document switch reset): once a newly chosen document has loaded, the
\* mode is Idle, no calibration is available, no measurement is completed or
\* in progress and no calibration point is pending.
C4_DocumentSwitchReset ==
    (lastEvent = "onDocumentLoadSuccess" /\ pdfUrl # samplePDF) =>
        /\ Idle
        /\ ~Truthy(scale)
        /\ measurements = <<>>
        /\ measurementPoints = <<>>
        /\ calibrationPoints = <<>>

\* C5 (measurement gating): without a committed calibration for the current
\* document "start measuring" is blocked, and Measuring mode or an
\* in-progress path implies that a commit has succeeded.
C5_MeasurementGating ==
    ~committed =>
        /\ ~measuring
        /\ measurementPoints = <<>>
        /\ ~MeasureButtonEnabled

\* C6 (degenerate rejection): a commit whose two pending points coincide
\* reports an error and leaves the stored ratio as it was; no zero ratio is
\* ever stored.
C6_DegenerateRejection ==
    [][/\ scale' # Zero
       /\ (/\ SubmitStep
           /\ Len(calibrationPoints) = 2
           /\ PixelDist(calibrationPoints[1], calibrationPoints[2]) = Zero)
          => (scale' = scale /\ calibrationError' # "")]_vars

\* C7 (pending points bounded): at most two calibration points are pending.
C7_PendingPointsBounded == Len(calibrationPoints) <= 2

\* C8 (cancel always available): whenever Measuring mode is active the
\* Cancel Measurement button is enabled, and pressing it ends Measuring mode
\* with no in-progress points.
C8_CancelAlwaysAvailable ==
    [][/\ measuring' => MeasureButtonEnabled'
       /\ (measuring /\ lastEvent' = "toggleMeasure")
          => (~measuring' /\ measurementPoints' = <<>>)]_vars

\* C9 (invalid length rejection): a commit whose entered length is not a
\* positive finite number reports an error and changes neither the ratio,
\* the pending points, Calibrating mode nor the open length prompt.
C9_InvalidLengthRejection ==
    [][(SubmitStep /\ ~PositiveLength(realLength))
       => /\ calibrationError' # ""
          /\ UNCHANGED <<scale, calibrationPoints, calibrationMode,
                         calibrationDialogOpen>>]_vars

\* C10 (successful commit): a commit with two distinct pending points and a
\* positive length L stores distance / L, clears the pending points, closes
\* the length prompt and returns the mode to Idle.
C10_SuccessfulCommit ==
    [][(/\ SubmitStep
        /\ Len(calibrationPoints) = 2
        /\ calibrationPoints[1] # calibrationPoints[2]
        /\ PositiveLength(realLength))
       => /\ scale' = RDiv(PixelDist(calibrationPoints[1], calibrationPoints[2]),
                           ParseFloat(realLength).val)
          /\ calibrationPoints' = <<>>
          /\ ~calibrationDialogOpen'
          /\ Idle']_vars

---------------------------------------------------------------------------
(* C11 .. C19 *)

\* C11 (two-point trigger): right after the click in Calibrating mode that
\* brings the pending points to exactly 2 the length dialog is open, and it
\* is not open while 0 or 1 points are pending.
C11_TwoPointTrigger ==
    /\ (lastEvent = "handlePdfClick" /\ Len(calibrationPoints) = 2)
           => calibrationDialogOpen
    /\ Len(calibrationPoints) < 2 => ~calibrationDialogOpen

C11_Witness ==
    /\ lastEvent = "handlePdfClick"
    /\ calibrationMode
    /\ Len(calibrationPoints) = 2
    /\ calibrationDialogOpen

FinishStep == lastEvent' = "handleMeasurementDoubleClick"

\* C12 (insufficient-points guard): a finish request while fewer than 2
\* points are in progress records no measurement, leaves the in-progress
\* points as they were and keeps Measuring mode active.
C12_InsufficientPointsGuard ==
    [][(FinishStep /\ Len(measurementPoints) < 2)
       => UNCHANGED <<measurements, measurementPoints, measuring>>]_vars

C12_Witness ==
    /\ lastEvent = "handleMeasurementDoubleClick"
    /\ measuring
    /\ Truthy(scale)
    /\ Len(measurementPoints) = 1
    /\ measurements = <<>>

\* C13 (finish measurement): a finish request in Measuring mode with at
\* least 2 in-progress points appends one measurement holding those points
\* to the end of the completed list, empties the in-progress path and
\* returns the mode to Idle; no step changes a measurement completed before.
C13_FinishMeasurement ==
    [][/\ (FinishStep /\ measuring /\ Len(measurementPoints) >= 2)
          => /\ Len(measurements') = Len(measurements) + 1
             /\ measurements'[Len(measurements')].points = measurementPoints
             /\ measurementPoints' = <<>>
             /\ Idle'
       /\ Len(measurements') >= Len(measurements)
       /\ \A i \in 1..Len(measurements) :
              /\ measurements'[i].points = measurements[i].points
              /\ PixelLength(measurements'[i].points)
                     = PixelLength(measurements[i].points)]_vars

\* C14 (begin/cancel calibration): "start calibration" enters Calibrating
\* with zero pending points, "cancel calibration" returns to Idle with zero
\* pending points, and neither changes the ratio or the completed
\* measurements.
C14_BeginCancelCalibration ==
    [][lastEvent' = "toggleCalibration"
       => /\ calibrationPoints' = <<>>
          /\ scale' = scale
          /\ measurements' = measurements
          /\ ~calibrationMode => calibrationMode'
          /\ calibrationMode => Idle']_vars

\* C15 (cancel measurement): "cancel" in Measuring mode discards the
\* in-progress points and returns to Idle, and leaves the completed
\* measurements and the ratio as they were.
C15_CancelMeasurement ==
    [][(lastEvent' = "toggleMeasure" /\ measuring)
       => /\ measurementPoints' = <<>>
          /\ Idle'
          /\ measurements' = measurements
          /\ scale' = scale]_vars

\* the running length shown next to the in-progress path
RunningLength == PathTotal(measurementPoints, scale)

\* C16 (path length correctness): the length computed for a path, both the
\* running length of the in-progress path and the length recorded at finish,
\* is the sum of the Euclidean pixel distances between consecutive points in
\* click order.
C16_PathLengthCorrectness ==
    /\ \A i \in 1..Len(measurements) :
           measurements[i].length = PixelLength(measurements[i].points)
    /\ (measuring /\ Len(measurementPoints) > 1)
           => RunningLength = PixelLength(measurementPoints)

\* C17 (commit never reachable with incomplete points): whenever the length
\* dialog is open, and so the submit action is available, Calibrating mode is
\* active and exactly 2 calibration points are pending.
C17_CommitNeedsTwoPoints ==
    calibrationDialogOpen => (calibrationMode /\ Len(calibrationPoints) = 2)

C17_Witness ==
    /\ lastEvent = "handleCalibrationSubmit"
    /\ calibrationDialogOpen
    /\ calibrationError = ErrorText
    /\ Len(calibrationPoints) = 2

\* C18 (points exist only inside their mode): a non-empty in-progress path
\* implies Measuring, non-empty pending calibration points imply Calibrating,
\* and every step that leaves a mode empties that mode's point list.
C18_PointsOnlyInsideMode ==
    [][/\ measurementPoints' # <<>> => measuring'
       /\ calibrationPoints' # <<>> => calibrationMode'
       /\ (measuring /\ ~measuring') => measurementPoints' = <<>>
       /\ (calibrationMode /\ ~calibrationMode') => calibrationPoints' = <<>>]_vars

C18_Witness ==
    /\ lastEvent = "handleMeasurementDoubleClick"
    /\ ~measuring
    /\ measurementPoints = <<>>
    /\ Len(measurements) = 1
    /\ Len(measurements[1].points) >= 2

\* C19 (zoom factor stays in range): the zoom factor used to render the page
\* and to map clicks into document space lies within [0.5, 3].
C19_ZoomFactorInRange ==
    /\ ~RLess(scaleFactor, Rat(1, 2))
    /\ ~RLess(Rat(3, 1), scaleFactor)

===========================================================================
